---- MODULE Spec2Model ----
(***************************************************************************)
(* Model of the financial analysis pipeline: main() builds a               *)
(* FinancialAnalysisOrchestrator over one JSON file, the orchestrator      *)
(* constructs the analyzers (each loads and projects the file on its own), *)
(* runs Budget, Salary, ROI, Cost and Financial Planning in that order and *)
(* renders a summary.  Numbers are integers; a ratio the code computes in  *)
(* floating point is kept as a numerator/denominator pair and compared by  *)
(* cross-multiplication.                                                   *)
(***************************************************************************)
EXTENDS Integers, Sequences, FiniteSets, TLC

VARIABLES
    file,        \* the input file on disk: "ok", "missing" or "malformed"
    fileChanges, \* how often the file may still change on disk during the run
    data,        \* the document the file holds while it is "ok"
    pc,          \* position of main() / the orchestrator
    tables,      \* per analyzer: the tables it projected at construction
    results,     \* orchestrator.analysis_results_collection
    fpRoi,       \* CompanyOverviewAnalyzer.roi_results
    raised,      \* the exception in flight, "none" when there is none
    exitCode,    \* process exit code, -1 while the process runs
    trace,       \* history of calls, returns and printed reports
    firstRun     \* what an earlier run of the pipeline left, for a second run

vars == <<file, fileChanges, data, pc, tables, results, fpRoi, raised, exitCode, trace,
          firstRun>>

----------------------------------------------------------------------------
(* Bounds of the model.                                                    *)

MaxDepts == 2
MaxEmps == 3
MaxFileChanges == 1
MaxSalaryRows == 4
MaxProjects == 3
MaxEquipment == 3

----------------------------------------------------------------------------
(* Generic helpers.                                                        *)

Range(s) == {s[i] : i \in DOMAIN s}

SeqsUpTo(S, n) == UNION {[1..k -> S] : k \in 0..n}

RECURSIVE SumSeq(_)
SumSeq(s) == IF s = <<>> THEN 0 ELSE Head(s) + SumSeq(Tail(s))

RECURSIVE SelectRows(_, _)
\* boolean-mask row selection: keeps the rows named by keep, in order
SelectRows(s, keep) ==
    IF s = <<>> THEN <<>>
    ELSE IF keep[Len(s)]
         THEN Append(SelectRows(SubSeq(s, 1, Len(s) - 1), keep), s[Len(s)])
         ELSE SelectRows(SubSeq(s, 1, Len(s) - 1), keep)

Column(rows, f) == [i \in DOMAIN rows |-> rows[i][f]]

----------------------------------------------------------------------------
(* The JSON document and its tabular projection                            *)
(* (BaseAnalyzer._setup_dataframes).  A table is the sequence of its rows. *)
(* A DataFrame built from a list of row objects has a column exactly when  *)
(* some row carries the key: rows here are uniform, and doc.absent names   *)
(* the columns that no row of the document carries.                        *)

DeptIds == {1, 2}
EmpDeptIds == DeptIds \cup {3}   \* 3: a department id no Department row has
Budgets == {200, 300}

DeptName(id) == IF id = 1 THEN "Dev" ELSE IF id = 2 THEN "Ops" ELSE "Lab"

DeptRows == {[id |-> i, name |-> DeptName(i), budget |-> b] : i \in DeptIds, b \in Budgets}

\* Employee tables (work_info.department_id, work_info.department_name,
\* work_info.salary) with the given department ids; salaries differ by row
EmployeesOf(ids) ==
    [i \in DOMAIN ids |->
        [department_id |-> ids[i], department_name |-> DeptName(ids[i]),
         salary |-> 40 + 10 * i]]

\* one KPI record per Department row (department_id, financial_metrics.budget_utilization)
KpiFor(departments) ==
    [i \in DOMAIN departments |->
        [department_id |-> departments[i].id, budget_utilization |-> 60 + 10 * i]]

BaseProjects ==
    << [status |-> "completed", profit |-> 100, actual_cost |-> 200,
        participating_departments |-> <<"Dev", "Ops">>],
       [status |-> "completed", profit |-> 300, actual_cost |-> 200,
        participating_departments |-> <<"Ops">>],
       [status |-> "active", profit |-> 70, actual_cost |-> 10,
        participating_departments |-> <<"Dev">>] >>

\* department_name, purchase_info.cost, operational_info.maintenance_cost_per_month
BaseEquipment ==
    << [name |-> "srv", type |-> "server", department_name |-> "Dev", cost |-> 1000,
        maintenance_cost_per_month |-> 20],
       [name |-> "lap", type |-> "laptop", department_name |-> "Ops", cost |-> 500,
        maintenance_cost_per_month |-> 30] >>

MakeDoc(departments, employees, projects, equipment, absent) ==
    [departments |-> departments, employees |-> employees,
     kpi_metrics |-> KpiFor(departments), projects |-> projects,
     equipment |-> equipment, absent |-> absent]

BaseDepartments ==
    << [id |-> 1, name |-> "Dev", budget |-> 300], [id |-> 2, name |-> "Ops", budget |-> 100] >>

BaseEmployees == EmployeesOf(<<1, 2>>)

BaseDoc == MakeDoc(BaseDepartments, BaseEmployees, BaseProjects, BaseEquipment, {})

\* documents that vary the Department and Employee tables
BudgetDocs ==
    {MakeDoc(d, EmployeesOf(e), BaseProjects, BaseEquipment, {}) :
        d \in SeqsUpTo(DeptRows, MaxDepts), e \in SeqsUpTo(EmpDeptIds, MaxEmps)}

\* documents in which one table is empty or lacks a column
AbsentColumns == {<<"employees", "salary">>, <<"employees", "department_name">>,
                  <<"kpi_metrics", "budget_utilization">>, <<"projects", "status">>,
                  <<"projects", "profit">>, <<"equipment", "maintenance_cost_per_month">>,
                  <<"equipment", "cost">>, <<"equipment", "department_name">>}

DefectDocs ==
    {MakeDoc(BaseDepartments, BaseEmployees, BaseProjects, BaseEquipment, {c}) :
        c \in AbsentColumns}
    \cup {MakeDoc(BaseDepartments, EmployeesOf(<<1>>), BaseProjects,
                  BaseEquipment, {<<"equipment", "cost">>}),
          MakeDoc(BaseDepartments, BaseEmployees, <<>>, BaseEquipment, {}),
          MakeDoc(BaseDepartments, BaseEmployees, BaseProjects, <<>>, {}),
          MakeDoc(<<>>, <<>>, <<>>, <<>>, {})}

\* Employee tables of one department with the given salaries
SalariedEmployees(salaries) ==
    [i \in DOMAIN salaries |->
        [department_id |-> 1, department_name |-> DeptName(1), salary |-> salaries[i]]]

Salaries == {10, 12, 1000}

\* a salary column with one value far above the others
OutlierSample == <<10, 12, 11, 13, 1000>>

\* documents that vary the salary column
SalaryDocs ==
    {MakeDoc(BaseDepartments, SalariedEmployees(e), BaseProjects, BaseEquipment, {}) :
        e \in (SeqsUpTo(Salaries, MaxSalaryRows) \cup {OutlierSample})}

\* (financials.profit, financials.actual_cost) of a project
ProjectFinancials == {<<100, 200>>, <<300, 200>>, <<100, 0>>, <<0, 0>>}

\* participating_departments of a project, as the department names in order
\* (<<>>: the list is empty or the project has none)
Participating == {<<>>, <<"Dev">>, <<"Ops", "Dev">>}

ProjectRow(status, f, d) ==
    [status |-> status, profit |-> f[1], actual_cost |-> f[2],
     participating_departments |-> d]

\* completed projects of every financial outcome and of every kind of
\* participating_departments, and a project that is not completed
ProjectRows ==
    {ProjectRow("completed", f, <<"Dev">>) : f \in ProjectFinancials}
    \cup {ProjectRow("completed", <<100, 200>>, d) : d \in Participating}
    \cup {ProjectRow("completed", <<300, 200>>, <<"Ops", "Dev">>),
          ProjectRow("active", <<300, 200>>, <<"Dev">>)}

\* documents that vary the Project table
ProjectDocs ==
    {MakeDoc(BaseDepartments, BaseEmployees, p, BaseEquipment, {}) :
        p \in SeqsUpTo(ProjectRows, MaxProjects)}

\* Equipment rows of three departments with two maintenance costs
EquipmentRows ==
    {[name |-> "srv", type |-> "server", department_name |-> d, cost |-> 1000,
      maintenance_cost_per_month |-> m] : d \in {"Dev", "Ops", "Lab"}, m \in {20, 30}}

\* documents that vary the Equipment table
EquipmentDocs ==
    {MakeDoc(BaseDepartments, BaseEmployees, BaseProjects, q, {}) :
        q \in SeqsUpTo(EquipmentRows, MaxEquipment)}

\* a document whose salaries sum to 100000 and whose monthly maintenance
\* costs sum to 20000
BreakEvenDoc ==
    MakeDoc(BaseDepartments, SalariedEmployees(<<60000, 30000, 10000>>), BaseProjects,
            << [name |-> "srv", type |-> "server", department_name |-> "Dev",
                cost |-> 1000, maintenance_cost_per_month |-> 15000],
               [name |-> "lap", type |-> "laptop", department_name |-> "Ops",
                cost |-> 500, maintenance_cost_per_month |-> 5000] >>, {})

Inputs ==
    BudgetDocs \cup DefectDocs \cup SalaryDocs \cup ProjectDocs \cup EquipmentDocs
        \cup {BreakEvenDoc}

\* the tables of an analyzer before _setup_dataframes filled them (empty DataFrames)
EmptyTables == MakeDoc(<<>>, <<>>, <<>>, <<>>, {})

\* df[col] raises KeyError when the table has no such column
HasColumn(t, table, col) ==
    /\ t[table] # <<>>
    /\ <<table, col>> \notin t.absent

----------------------------------------------------------------------------
(* Outcome of a call: the value it returns, or the exception it raises.    *)

Return(v) == [exc |-> "none", value |-> v]
Raise(e) == [exc |-> e, value |-> <<>>]

(* A ratio a/b the code computes in floating point, b > 0.                 *)
Ratio(a, b) == [num |-> a, den |-> b]
RatioGE(x, y) == x.num * y.den >= y.num * x.den

----------------------------------------------------------------------------
(* BudgetAnalyzer                                                          *)

\* variant of AnalyseBudget: the distribution is built as a name -> budget
\* mapping, so rows of the same name collapse into one entry
AnalyseBudgetByName(t) ==
    IF ~(HasColumn(t, "departments", "budget") /\ HasColumn(t, "departments", "name"))
    THEN Raise("KeyError")
    ELSE LET last == SelectRows(t.departments,
                        [i \in DOMAIN t.departments |->
                            \A j \in DOMAIN t.departments :
                                t.departments[j].name = t.departments[i].name => j <= i])
         IN  Return([total_budget |-> SumSeq(Column(t.departments, "budget")),
                     department_budgets |->
                        [i \in DOMAIN last |->
                            [name |-> last[i].name, budget |-> last[i].budget]]])

\* _analyse_budget: total of the budget column and the (name, budget) columns
AnalyseBudget(t) ==
    IF ~(HasColumn(t, "departments", "budget") /\ HasColumn(t, "departments", "name"))
    THEN Raise("KeyError")
    ELSE Return([total_budget |-> SumSeq(Column(t.departments, "budget")),
                 department_budgets |->
                    [i \in DOMAIN t.departments |->
                        [name |-> t.departments[i].name,
                         budget |-> t.departments[i].budget]]])

\* employees_df.groupby('work_info.department_id').size(): one group per
\* department id some employee has, with the number of its employees
EmployeeCounts(employees) ==
    [k \in Range(Column(employees, "department_id")) |->
        Cardinality({i \in DOMAIN employees : employees[i].department_id = k})]

\* pd.merge(departments_df, employee_counts, left_on='id',
\*          right_on='work_info.department_id'): an inner join, in the order
\* of the Department rows, with budget_per_employee = budget / employee_count
MergeEmployeeCounts(departments, counts) ==
    LET matched == SelectRows(departments,
                       [i \in DOMAIN departments |-> departments[i].id \in DOMAIN counts])
    IN  [i \in DOMAIN matched |->
            [id |-> matched[i].id, name |-> matched[i].name,
             budget |-> matched[i].budget,
             department_id |-> matched[i].id,
             employee_count |-> counts[matched[i].id],
             budget_per_employee |-> Ratio(matched[i].budget, counts[matched[i].id])]]

\* variant of BudgetPerEmployeeGE: the ranking is sorted by budget
BudgetPerEmployeeGEByBudget(r1, r2) == r1.budget >= r2.budget

BudgetPerEmployeeGE(r1, r2) == RatioGE(r1.budget_per_employee, r2.budget_per_employee)

\* sort_values(ascending=False): descending by key, rows of equal key staying
\* in their original order; ge[i, j] tells whether the key of row i is >= the
\* key of row j
SortDesc(rows, ge) ==
    LET n == Len(rows)
        before(j, i) == \/ ge[j, i] /\ ~ge[i, j]
                        \/ j < i /\ ge[j, i] /\ ge[i, j]
        position(i) == Cardinality({j \in 1..n : before(j, i)}) + 1
    IN  [p \in 1..n |-> rows[CHOOSE i \in 1..n : position(i) = p]]

\* _analyse_department_budget: first and last row of the merged table sorted
\* by budget_per_employee, descending
AnalyseDepartmentBudget(t) ==
    IF ~HasColumn(t, "employees", "department_id") THEN Raise("KeyError")
    ELSE LET merged_df == MergeEmployeeCounts(t.departments,
                                               EmployeeCounts(t.employees))
             budget_per_employee_sorted ==
                 SortDesc(merged_df,
                     [i \in DOMAIN merged_df, j \in DOMAIN merged_df |->
                         BudgetPerEmployeeGE(merged_df[i], merged_df[j])])
         IN  IF budget_per_employee_sorted = <<>> THEN Raise("IndexError")
             ELSE Return([highest |-> budget_per_employee_sorted[1],
                          lowest |-> budget_per_employee_sorted[
                                         Len(budget_per_employee_sorted)]])

RECURSIVE MergeKpi(_, _)
\* pd.merge(departments_df, kpi_metrics_df, left_on='id', right_on='department_id')
MergeKpi(departments, kpi) ==
    IF departments = <<>> THEN <<>>
    ELSE LET d == Head(departments)
             hits == SelectRows(kpi, [j \in DOMAIN kpi |-> kpi[j].department_id = d.id])
         IN  [j \in DOMAIN hits |->
                 [name |-> d.name, budget_utilization |-> hits[j].budget_utilization]]
             \o MergeKpi(Tail(departments), kpi)

UtilizationGE(r1, r2) == r1.budget_utilization >= r2.budget_utilization

\* _analyse_budget_utilization
AnalyseBudgetUtilization(t) ==
    IF ~(HasColumn(t, "kpi_metrics", "department_id")
         /\ HasColumn(t, "kpi_metrics", "budget_utilization")
         /\ HasColumn(t, "departments", "id"))
    THEN Raise("KeyError")
    ELSE LET merged_df == MergeKpi(t.departments, t.kpi_metrics)
         IN  Return(SortDesc(merged_df,
                        [i \in DOMAIN merged_df, j \in DOMAIN merged_df |->
                            UtilizationGE(merged_df[i], merged_df[j])]))

\* BudgetAnalyzer.execute_analysis: the first exception of a step is logged
\* and re-raised; otherwise the result mapping is returned
BudgetExecute(t) ==
    LET budget == AnalyseBudget(t)
        dept == AnalyseDepartmentBudget(t)
        util == AnalyseBudgetUtilization(t)
    IN  IF budget.exc # "none" THEN Raise(budget.exc)
        ELSE IF dept.exc # "none" THEN Raise(dept.exc)
        ELSE IF util.exc # "none" THEN Raise(util.exc)
        ELSE Return([total_budget |-> budget.value.total_budget,
                     budget_per_department |-> budget.value.department_budgets,
                     highest_budget_department |-> dept.value.highest,
                     lowest_budget_department |-> dept.value.lowest,
                     budget_utilization |-> util.value])

----------------------------------------------------------------------------
(* SalaryAnalyzer                                                          *)

IntLE(a, b) == a <= b

\* the values in ascending order
SortAsc(values) ==
    SortDesc(values, [i \in DOMAIN values, j \in DOMAIN values |->
                         IntLE(values[i], values[j])])

\* Series.quantile(k/4), linear interpolation between the two nearest order
\* statistics, as a ratio over 4
Quantile4(values, k) ==
    LET sorted == SortAsc(values)
        h == (Len(values) - 1) * k
        lo == h \div 4
        r == h % 4
    IN  IF r = 0 THEN Ratio(4 * sorted[lo + 1], 4)
        ELSE Ratio(4 * sorted[lo + 1] + r * (sorted[lo + 2] - sorted[lo + 1]), 4)

\* _analyze_salary_distribution: describe() of the salary column (the
\* standard deviation is left out: it is not a ratio of integers)
AnalyzeSalaryDistribution(t) ==
    IF ~HasColumn(t, "employees", "salary") THEN Raise("KeyError")
    ELSE LET salaries == Column(t.employees, "salary")
             sorted == SortAsc(salaries)
         IN  Return([count |-> Len(salaries),
                     mean |-> Ratio(SumSeq(salaries), Len(salaries)),
                     min |-> sorted[1],
                     q25 |-> Quantile4(salaries, 1),
                     q50 |-> Quantile4(salaries, 2),
                     q75 |-> Quantile4(salaries, 3),
                     max |-> sorted[Len(sorted)]])

\* _analyze_salary_per_department: sum of salaries per department name
AnalyzeSalaryPerDepartment(t) ==
    IF ~(HasColumn(t, "employees", "department_name")
         /\ HasColumn(t, "employees", "salary"))
    THEN Raise("KeyError")
    ELSE Return([n \in Range(Column(t.employees, "department_name")) |->
                    SumSeq(Column(SelectRows(t.employees,
                               [i \in DOMAIN t.employees |->
                                   t.employees[i].department_name = n]), "salary"))])

\* salary <= Q1 - 1.5 * IQR, both sides times 8 (Q1 = q1.num / 4)
AtOrBelowLowerBound(salary, q1, q3) ==
    8 * salary <= 2 * q1.num - 3 * (q3.num - q1.num)

\* variant of AtOrAboveUpperBound: the upper bound is Q3 + 3 * IQR
AtOrAboveUpperBoundWide(salary, q1, q3) ==
    8 * salary >= 2 * q3.num + 6 * (q3.num - q1.num)

\* salary >= Q3 + 1.5 * IQR, both sides times 8
AtOrAboveUpperBound(salary, q1, q3) ==
    8 * salary >= 2 * q3.num + 3 * (q3.num - q1.num)

\* _identify_salary_outliers: the rows outside the bounds (a DataFrame), or
\* the empty list when there are none
IdentifySalaryOutliers(t) ==
    IF ~HasColumn(t, "employees", "salary") THEN Raise("KeyError")
    ELSE LET salaries == Column(t.employees, "salary")
             Q1 == Quantile4(salaries, 1)
             Q3 == Quantile4(salaries, 3)
             outliers == SelectRows(t.employees,
                            [i \in DOMAIN t.employees |->
                                \/ AtOrBelowLowerBound(salaries[i], Q1, Q3)
                                \/ AtOrAboveUpperBound(salaries[i], Q1, Q3)])
         IN  Return(IF outliers = <<>> THEN [kind |-> "list", rows |-> <<>>]
                    ELSE [kind |-> "DataFrame", rows |-> outliers])

\* SalaryAnalyzer.execute_analysis
SalaryExecute(t) ==
    LET distribution == AnalyzeSalaryDistribution(t)
        per_department == AnalyzeSalaryPerDepartment(t)
        outliers == IdentifySalaryOutliers(t)
    IN  IF distribution.exc # "none" THEN Raise(distribution.exc)
        ELSE IF per_department.exc # "none" THEN Raise(per_department.exc)
        ELSE IF outliers.exc # "none" THEN Raise(outliers.exc)
        ELSE Return([salary_distribution |-> distribution.value,
                     salary_per_department |-> per_department.value,
                     salary_outliers |-> outliers.value])

----------------------------------------------------------------------------
(* Floating-point values of the ROI computations: a ratio num/den with     *)
(* den > 0, or den = 0 for the values a division by zero yields            *)
(* (num > 0: +inf, num < 0: -inf, num = 0: NaN).                           *)

Sign(a) == IF a > 0 THEN 1 ELSE IF a < 0 THEN -1 ELSE 0

\* a / b of two columns: no exception on a zero denominator
Divide(a, b) ==
    IF b > 0 THEN Ratio(a, b) ELSE IF b < 0 THEN Ratio(-a, -b) ELSE Ratio(Sign(a), 0)

IsNaN(x) == x.den = 0 /\ x.num = 0

RECURSIVE Gcd(_, _)
Gcd(a, b) == IF b = 0 THEN a ELSE Gcd(b, a % b)

\* the same value in lowest terms
Lowest(x) ==
    IF x.den = 0 THEN x
    ELSE LET g == Gcd(IF x.num < 0 THEN -x.num ELSE x.num, x.den)
         IN  Ratio(x.num \div g, x.den \div g)

NumAdd(x, y) ==
    IF IsNaN(x) \/ IsNaN(y) THEN Ratio(0, 0)
    ELSE IF x.den = 0 /\ y.den = 0 THEN (IF x.num = y.num THEN x ELSE Ratio(0, 0))
    ELSE IF x.den = 0 THEN x
    ELSE IF y.den = 0 THEN y
    ELSE LET a == Lowest(x)
             b == Lowest(y)
         IN  Lowest(Ratio(a.num * b.den + b.num * a.den, a.den * b.den))

RECURSIVE NumSum(_)
NumSum(xs) == IF xs = <<>> THEN Ratio(0, 1) ELSE NumAdd(Head(xs), NumSum(Tail(xs)))

\* Series.mean(): NaN entries are skipped; the mean of nothing is NaN
NumMean(xs) ==
    LET present == SelectRows(xs, [i \in DOMAIN xs |-> ~IsNaN(xs[i])])
        total == NumSum(present)
    IN  IF present = <<>> THEN Ratio(0, 0)
        ELSE IF total.den = 0 THEN total
        ELSE Lowest(Ratio(total.num, total.den * Len(present)))

\* x >= y as sort_values(ascending=False) orders values: NaN comes last
NumGE(x, y) ==
    IF IsNaN(y) THEN TRUE
    ELSE IF IsNaN(x) THEN FALSE
    ELSE IF x.den = 0 /\ y.den = 0 THEN x.num >= y.num
    ELSE x.num * y.den >= y.num * x.den

\* x > y as a comparison of floats: FALSE when either side is NaN
NumGT(x, y) ==
    /\ ~IsNaN(x) /\ ~IsNaN(y)
    /\ IF x.den = 0 /\ y.den = 0 THEN x.num > y.num
       ELSE x.num * y.den > y.num * x.den

\* groupby sorts its groups by key: the order of the department names
\* ("NotSpecified" stands for the sentinel 'Не указан', which sorts last)
NameRank(n) ==
    IF n = "Dev" THEN 1 ELSE IF n = "Lab" THEN 2 ELSE IF n = "Ops" THEN 3 ELSE 4

\* the distinct values of a column, in groupby's key order
GroupKeys(names) ==
    LET keys == Range(names)
        rank(k) == Cardinality({j \in keys : NameRank(j) < NameRank(k)}) + 1
    IN  [p \in 1..Cardinality(keys) |-> CHOOSE k \in keys : rank(k) = p]

----------------------------------------------------------------------------
(* RoiAnalyzer                                                             *)

\* projects_df[projects_df['status'] == 'completed'] with the added column
\* calculated_roi = profit / actual_cost * 100
CompletedProjects(t) ==
    LET completed == SelectRows(t.projects,
                        [i \in DOMAIN t.projects |-> t.projects[i].status = "completed"])
    IN  [i \in DOMAIN completed |->
            [status |-> completed[i].status, profit |-> completed[i].profit,
             actual_cost |-> completed[i].actual_cost,
             participating_departments |-> completed[i].participating_departments,
             calculated_roi |-> Divide(completed[i].profit * 100,
                                       completed[i].actual_cost)]]

\* variant of AnalyzeGeneralRoi: the mean of the per-project ROI
AnalyzeGeneralRoiUnweighted(completed_projects) ==
    NumMean(Column(completed_projects, "calculated_roi"))

\* _analyze_general_roi
AnalyzeGeneralRoi(completed_projects) ==
    LET total_profit == SumSeq(Column(completed_projects, "profit"))
        total_cost == SumSeq(Column(completed_projects, "actual_cost"))
    IN  IF total_cost > 0 THEN Ratio(total_profit * 100, total_cost) ELSE Ratio(0, 1)

\* depts[0]['department_name'] if isinstance(depts, list) and depts else 'Не указан'
MainDepartment(depts) == IF depts # <<>> THEN depts[1] ELSE "NotSpecified"

AverageRoiGE(r1, r2) == NumGE(r1.average_roi, r2.average_roi)

\* groupby('main_department')['calculated_roi'].mean().sort_values(ascending=False)
DepartmentRoi(completed_projects) ==
    LET main == [i \in DOMAIN completed_projects |->
                    MainDepartment(completed_projects[i].participating_departments)]
        keys == GroupKeys(main)
        grouped == [p \in DOMAIN keys |->
                      [name |-> keys[p],
                       average_roi |->
                          NumMean(Column(SelectRows(completed_projects,
                                      [i \in DOMAIN completed_projects |->
                                          main[i] = keys[p]]), "calculated_roi"))]]
    IN  SortDesc(grouped, [i \in DOMAIN grouped, j \in DOMAIN grouped |->
                              AverageRoiGE(grouped[i], grouped[j])])

\* _analyze_effective_roi_per_department
AnalyzeEffectiveRoiPerDepartment(t, completed_projects) ==
    IF ~HasColumn(t, "projects", "participating_departments") THEN Raise("KeyError")
    ELSE LET department_roi == DepartmentRoi(completed_projects)
         IN  IF department_roi = <<>> THEN Raise("IndexError")
             ELSE Return([effective_roi_department |-> department_roi[1].name,
                          ineffective_roi_department |->
                              department_roi[Len(department_roi)].name,
                          department_roi |-> department_roi])

RECURSIVE MergeOnName(_, _)
\* pd.merge(departments_df, department_roi_df, on='name')
MergeOnName(departments, department_roi) ==
    IF departments = <<>> THEN <<>>
    ELSE LET d == Head(departments)
             hits == SelectRows(department_roi,
                         [j \in DOMAIN department_roi |-> department_roi[j].name = d.name])
         IN  [j \in DOMAIN hits |->
                 [budget |-> d.budget, average_roi |-> hits[j].average_roi]]
             \o MergeOnName(Tail(departments), department_roi)

\* _analyze_roi_budget_correlation: the Pearson coefficient of the joined
\* (budget, average_roi) sample, kept as the sample it is a function of
AnalyzeRoiBudgetCorrelation(t, department_roi) ==
    IF ~(HasColumn(t, "departments", "name") /\ HasColumn(t, "departments", "budget"))
    THEN Raise("KeyError")
    ELSE Return(MergeOnName(t.departments, department_roi))

\* RoiAnalyzer.execute_analysis
RoiExecute(t) ==
    IF ~(HasColumn(t, "projects", "status") /\ HasColumn(t, "projects", "profit")
         /\ HasColumn(t, "projects", "actual_cost"))
    THEN Raise("KeyError")
    ELSE LET completed_projects == CompletedProjects(t)
             general_roi == AnalyzeGeneralRoi(completed_projects)
             effective == AnalyzeEffectiveRoiPerDepartment(t, completed_projects)
             correlation == AnalyzeRoiBudgetCorrelation(t, effective.value.department_roi)
         IN  IF effective.exc # "none" THEN Raise(effective.exc)
             ELSE IF correlation.exc # "none" THEN Raise(correlation.exc)
             ELSE Return([general_roi |-> general_roi,
                          department_roi |-> effective.value.department_roi,
                          effective_roi_department |->
                              effective.value.effective_roi_department,
                          ineffective_roi_department |->
                              effective.value.ineffective_roi_department,
                          roi_budget_correlation |-> correlation.value])

----------------------------------------------------------------------------
(* CostOptimizationAnalyzer                                                *)

\* _calculate_general_costs
CalculateGeneralCosts(t) ==
    IF ~(HasColumn(t, "equipment", "cost")
         /\ HasColumn(t, "equipment", "maintenance_cost_per_month"))
    THEN Raise("KeyError")
    ELSE LET total_monthly_cost ==
                 SumSeq(Column(t.equipment, "maintenance_cost_per_month"))
         IN  Return([total_purchase_cost |-> SumSeq(Column(t.equipment, "cost")),
                     total_monthly_cost |-> total_monthly_cost,
                     total_annual_cost |-> total_monthly_cost * 12])

\* variant of AmountGE: the ranking is sorted in ascending order
AmountGEAscending(r1, r2) == r1.amount <= r2.amount

AmountGE(r1, r2) == r1.amount >= r2.amount

\* _find_high_operational_cost_departments: monthly maintenance summed per
\* department name, sorted descending
FindHighOperationalCostDepartments(t) ==
    IF ~(HasColumn(t, "equipment", "department_name")
         /\ HasColumn(t, "equipment", "maintenance_cost_per_month"))
    THEN Raise("KeyError")
    ELSE LET keys == GroupKeys(Column(t.equipment, "department_name"))
             grouped == [p \in DOMAIN keys |->
                           [department_name |-> keys[p],
                            amount |->
                               SumSeq(Column(SelectRows(t.equipment,
                                          [i \in DOMAIN t.equipment |->
                                              t.equipment[i].department_name = keys[p]]),
                                      "maintenance_cost_per_month"))]]
             department_costs ==
                 SortDesc(grouped, [i \in DOMAIN grouped, j \in DOMAIN grouped |->
                                       AmountGE(grouped[i], grouped[j])])
         IN  IF department_costs = <<>> THEN Raise("IndexError")
             ELSE Return([top_spender_department |-> department_costs[1].department_name,
                          top_spender_amount |-> department_costs[1].amount,
                          full_rating |-> department_costs])

MaintenanceGE(r1, r2) == r1.maintenance_cost_per_month >= r2.maintenance_cost_per_month

\* _find_most_expensive_equipment
FindMostExpensiveEquipment(t) ==
    IF ~HasColumn(t, "equipment", "maintenance_cost_per_month") THEN Raise("KeyError")
    ELSE Return(SortDesc(t.equipment,
                    [i \in DOMAIN t.equipment, j \in DOMAIN t.equipment |->
                        MaintenanceGE(t.equipment[i], t.equipment[j])])[1])

\* the mapping execute_analysis returns instead of raising
CostErrorMapping(e) == [error |-> e]

\* variant of CostExecute: the exception is re-raised like in the other modules
CostExecuteRaising(t) ==
    IF CalculateGeneralCosts(t).exc # "none" THEN Raise(CalculateGeneralCosts(t).exc)
    ELSE IF FindHighOperationalCostDepartments(t).exc # "none"
    THEN Raise(FindHighOperationalCostDepartments(t).exc)
    ELSE IF FindMostExpensiveEquipment(t).exc # "none"
    THEN Raise(FindMostExpensiveEquipment(t).exc)
    ELSE IF ~(HasColumn(t, "equipment", "name") /\ HasColumn(t, "equipment", "type"))
    THEN Raise("KeyError")
    ELSE Return([general_costs |-> CalculateGeneralCosts(t).value,
                 high_operational_cost_departments |->
                     FindHighOperationalCostDepartments(t).value,
                 most_expensive_equipment |-> FindMostExpensiveEquipment(t).value])

\* CostOptimizationAnalyzer.execute_analysis: an exception of a step is
\* logged and turned into the mapping {"error": message}
CostExecute(t) ==
    LET general_costs_data == CalculateGeneralCosts(t)
        high_cost_depts_data == FindHighOperationalCostDepartments(t)
        most_expensive_eq_data == FindMostExpensiveEquipment(t)
    IN  IF general_costs_data.exc # "none"
        THEN Return(CostErrorMapping(general_costs_data.exc))
        ELSE IF high_cost_depts_data.exc # "none"
        THEN Return(CostErrorMapping(high_cost_depts_data.exc))
        ELSE IF most_expensive_eq_data.exc # "none"
        THEN Return(CostErrorMapping(most_expensive_eq_data.exc))
        ELSE IF ~(HasColumn(t, "equipment", "name") /\ HasColumn(t, "equipment", "type"))
        THEN Return(CostErrorMapping("KeyError"))
        ELSE Return([general_costs |-> general_costs_data.value,
                     high_operational_cost_departments |-> high_cost_depts_data.value,
                     most_expensive_equipment |-> most_expensive_eq_data.value])

----------------------------------------------------------------------------
(* CompanyOverviewAnalyzer (Financial Planning)                            *)

\* variant of CalculateBreakEvenPoint: the monthly fixed costs are not annualised
CalculateBreakEvenPointMonthly(t) ==
    IF ~(HasColumn(t, "employees", "salary")
         /\ HasColumn(t, "equipment", "maintenance_cost_per_month"))
    THEN Raise("KeyError")
    ELSE Return([break_even_point |->
                    Ratio((SumSeq(Column(t.employees, "salary"))
                           + SumSeq(Column(t.equipment, "maintenance_cost_per_month"))) * 10,
                          3)])

\* _calculate_break_even_point: fixed_costs_annual / margin_ratio with
\* margin_ratio = 0.30, as the ratio fixed_costs_annual * 10 / 3
CalculateBreakEvenPoint(t) ==
    IF ~(HasColumn(t, "employees", "salary")
         /\ HasColumn(t, "equipment", "maintenance_cost_per_month"))
    THEN Raise("KeyError")
    ELSE LET total_salary_fund_month == SumSeq(Column(t.employees, "salary"))
             total_maintenance_cost_month ==
                 SumSeq(Column(t.equipment, "maintenance_cost_per_month"))
             fixed_costs_annual ==
                 (total_salary_fund_month + total_maintenance_cost_month) * 12
         IN  Return([break_even_point |-> Ratio(fixed_costs_annual * 10, 3)])

\* _find_high_effective_roi_department: computes the departments above the
\* mean and returns the whole department_roi series
FindHighEffectiveRoiDepartment(roi_results) ==
    LET department_roi == roi_results.department_roi
        average_roi == NumMean(Column(department_roi, "average_roi"))
        high_roi_departments ==
            SelectRows(department_roi,
                [i \in DOMAIN department_roi |->
                    NumGT(department_roi[i].average_roi, average_roi)])
    IN  department_roi

\* CompanyOverviewAnalyzer.execute_analysis
FinancialPlanningExecute(t, roi_results) ==
    LET break_even_point == CalculateBreakEvenPoint(t)
    IN  IF break_even_point.exc # "none" THEN Raise(break_even_point.exc)
        ELSE Return([break_even_point |-> break_even_point.value,
                     high_effective_roi_department |->
                         FindHighEffectiveRoiDepartment(roi_results)])

----------------------------------------------------------------------------
(* FinancialAnalysisOrchestrator and main()                                *)

ModuleOrder == <<"budget", "salary", "roi", "cost", "company_overview">>

FileStates == {"ok", "missing", "malformed"}

\* BaseAnalyzer._load_data: open() and json.load(); the error is logged and
\* re-raised
LoadData(f) ==
    IF f = "ok" THEN "none"
    ELSE IF f = "missing" THEN "FileNotFoundError"
    ELSE "JSONDecodeError"

\* variant of SummaryReport: the cost fields are read with a default, so a
\* cost result without them is reported as zeros
SummaryReportTolerant(r) ==
    IF r["salary"].salary_outliers.kind = "DataFrame" THEN "ValueError" ELSE "none"

\* _generate_comprehensive_summary_report: reads fixed fields of the five
\* results.  `not salary_outliers` on a DataFrame raises ValueError; a cost
\* result without 'general_costs' raises KeyError
SummaryReport(r) ==
    IF r["salary"].salary_outliers.kind = "DataFrame" THEN "ValueError"
    ELSE IF "general_costs" \notin DOMAIN r["cost"] THEN "KeyError"
    ELSE "none"

Log(event) == trace' = Append(trace, event)

\* no run of the pipeline has ended yet; changes: how often the file may
\* still change, as the first run starts
NoRun(changes) ==
    [runs |-> 0, changes |-> changes, results |-> <<>>, raised |-> "none", exitCode |-> -1]

Init ==
    /\ file \in FileStates
    /\ fileChanges \in 0..MaxFileChanges
    /\ data \in (IF fileChanges = 0 THEN Inputs ELSE {BaseDoc})
    /\ pc = "main"
    /\ tables = <<>>
    /\ results = <<>>
    /\ fpRoi = <<>>
    /\ raised = "none"
    /\ exitCode = -1
    /\ trace = <<>>
    /\ firstRun = NoRun(fileChanges)

\* the file is replaced, removed or corrupted by another process
EnvChangeFile ==
    /\ pc # "done"
    /\ fileChanges > 0
    /\ fileChanges' = fileChanges - 1
    /\ \E f \in FileStates \ {file} : file' = f
    /\ UNCHANGED <<firstRun, data, pc, tables, results, fpRoi, raised, exitCode, trace>>

\* variant of VerifyDataFileExists: __init__ without the existence check
VerifyDataFileExistsSkipped ==
    /\ pc = "main"
    /\ pc' = "new_budget"
    /\ Log(<<"verified", "file">>)
    /\ UNCHANGED <<firstRun, file, fileChanges, data, tables, results, fpRoi, raised, exitCode>>

\* FinancialAnalysisOrchestrator.__init__ up to _verify_data_file_exists
VerifyDataFileExists ==
    /\ pc = "main"
    /\ IF file = "missing"
       THEN /\ raised' = "FileNotFoundError"
            /\ pc' = "main_except"
            /\ Log(<<"print", "Data file not found">>)
       ELSE /\ raised' = raised
            /\ pc' = "new_budget"
            /\ Log(<<"verified", "file">>)
    /\ UNCHANGED <<firstRun, file, fileChanges, data, tables, results, fpRoi, exitCode>>

\* an analyzer constructor called from __init__: BaseAnalyzer.__init__ loads
\* and projects the file; an error leaves __init__ and reaches main()
Construct(m, at, next) ==
    /\ pc = at
    /\ IF LoadData(file) = "none"
       THEN /\ tables' = (m :> data) @@ tables
            /\ raised' = raised
            /\ pc' = next
            /\ Log(<<"new", m>>)
       ELSE /\ tables' = tables
            /\ raised' = LoadData(file)
            /\ pc' = "main_except"
            /\ Log(<<"load_error", m>>)
    /\ UNCHANGED <<firstRun, file, fileChanges, data, results, fpRoi, exitCode>>

ConstructBudget == Construct("budget", "new_budget", "new_salary")
ConstructSalary == Construct("salary", "new_salary", "new_roi")
ConstructRoi == Construct("roi", "new_roi", "new_cost")
ConstructCost == Construct("cost", "new_cost", "exec_budget")

\* variant of Execute: the exception is caught and stored as an inline error
\* mapping, and the run continues
ExecuteSwallowing(m, outcome, at, next) ==
    /\ pc = at
    /\ results' = (m :> (IF outcome.exc = "none" THEN outcome.value
                         ELSE [error |-> outcome.exc])) @@ results
    /\ pc' = next
    /\ trace' = trace \o << <<"call", m>>, <<"return", m>> >>
    /\ UNCHANGED <<firstRun, file, fileChanges, data, tables, fpRoi, raised, exitCode>>

\* variant of Execute: a result is added to what the collection already holds
\* under the key instead of replacing it
ExecuteAccumulating(m, outcome, at, next) ==
    /\ pc = at
    /\ IF outcome.exc = "none"
       THEN /\ results' = (m :> (IF m \in DOMAIN results
                                 THEN <<results[m], outcome.value>>
                                 ELSE outcome.value)) @@ results
            /\ raised' = raised
            /\ pc' = next
            /\ trace' = trace \o << <<"call", m>>, <<"return", m>> >>
       ELSE /\ results' = results
            /\ raised' = outcome.exc
            /\ pc' = "orch_except"
            /\ trace' = trace \o << <<"call", m>>, <<"raise", m>> >>
    /\ UNCHANGED <<firstRun, file, fileChanges, data, tables, fpRoi, exitCode>>

\* one step of execute_comprehensive_analysis: call the module's
\* execute_analysis and store what it returns under its key; an exception
\* reaches the except clause of execute_comprehensive_analysis
Execute(m, outcome, at, next) ==
    /\ pc = at
    /\ IF outcome.exc = "none"
       THEN /\ results' = (m :> outcome.value) @@ results
            /\ raised' = raised
            /\ pc' = next
            /\ trace' = trace \o << <<"call", m>>, <<"return", m>> >>
       ELSE /\ results' = results
            /\ raised' = outcome.exc
            /\ pc' = "orch_except"
            /\ trace' = trace \o << <<"call", m>>, <<"raise", m>> >>
    /\ UNCHANGED <<firstRun, file, fileChanges, data, tables, fpRoi, exitCode>>

ExecuteBudget == Execute("budget", BudgetExecute(tables["budget"]), "exec_budget", "exec_salary")
ExecuteSalary == Execute("salary", SalaryExecute(tables["salary"]), "exec_salary", "exec_roi")
\* variant of ExecuteRoi: the completed projects are selected, and given
\* their calculated_roi column, in the analyzer's projects table itself
ExecuteRoiInPlace ==
    /\ pc = "exec_roi"
    /\ IF RoiExecute(tables["roi"]).exc = "none"
       THEN /\ results' = ("roi" :> RoiExecute(tables["roi"]).value) @@ results
            /\ tables' = [tables EXCEPT !["roi"].projects = CompletedProjects(tables["roi"])]
            /\ raised' = raised
            /\ pc' = "new_overview"
            /\ trace' = trace \o << <<"call", "roi">>, <<"return", "roi">> >>
       ELSE /\ results' = results
            /\ tables' = tables
            /\ raised' = RoiExecute(tables["roi"]).exc
            /\ pc' = "orch_except"
            /\ trace' = trace \o << <<"call", "roi">>, <<"raise", "roi">> >>
    /\ UNCHANGED <<firstRun, file, fileChanges, data, fpRoi, exitCode>>

\* variant of ExecuteRoi: the ROI analysis runs in the place of Salary's
ExecuteRoiOutOfOrder ==
    Execute("roi", RoiExecute(tables["roi"]), "exec_salary", "new_overview")

ExecuteRoi == Execute("roi", RoiExecute(tables["roi"]), "exec_roi", "new_overview")

\* variant of ConstructOverview: the analyzer is handed the budget results
ConstructOverviewWrongResults ==
    /\ pc = "new_overview"
    /\ IF LoadData(file) = "none"
       THEN /\ tables' = ("company_overview" :> data) @@ tables
            /\ fpRoi' = results["budget"]
            /\ raised' = raised
            /\ pc' = "exec_cost"
            /\ Log(<<"new", "company_overview">>)
       ELSE /\ tables' = tables
            /\ fpRoi' = fpRoi
            /\ raised' = LoadData(file)
            /\ pc' = "orch_except"
            /\ Log(<<"load_error", "company_overview">>)
    /\ UNCHANGED <<firstRun, file, fileChanges, data, results, exitCode>>

\* CompanyOverviewAnalyzer(json_data_file_path, roi_analysis_results), inside
\* the try block of execute_comprehensive_analysis
ConstructOverview ==
    /\ pc = "new_overview"
    /\ IF LoadData(file) = "none"
       THEN /\ tables' = ("company_overview" :> data) @@ tables
            /\ fpRoi' = results["roi"]
            /\ raised' = raised
            /\ pc' = "exec_cost"
            /\ Log(<<"new", "company_overview">>)
       ELSE /\ tables' = tables
            /\ fpRoi' = fpRoi
            /\ raised' = LoadData(file)
            /\ pc' = "orch_except"
            /\ Log(<<"load_error", "company_overview">>)
    /\ UNCHANGED <<firstRun, file, fileChanges, data, results, exitCode>>

ExecuteCost == Execute("cost", CostExecute(tables["cost"]), "exec_cost", "exec_overview")

ExecuteOverview ==
    Execute("company_overview",
            FinancialPlanningExecute(tables["company_overview"], fpRoi),
            "exec_overview", "summary")

\* _generate_comprehensive_summary_report, then return to main()
GenerateSummary ==
    /\ pc = "summary"
    /\ IF SummaryReport(results) = "none"
       THEN /\ raised' = raised
            /\ pc' = "returned"
            /\ Log(<<"summary", "rendered">>)
       ELSE /\ raised' = SummaryReport(results)
            /\ pc' = "orch_except"
            /\ Log(<<"summary", "raise">>)
    /\ UNCHANGED <<firstRun, file, fileChanges, data, tables, results, fpRoi, exitCode>>

\* variant of OrchestratorExcept: the handler also records the failure in
\* the result collection
OrchestratorExceptRecording ==
    /\ pc = "orch_except"
    /\ pc' = "main_except"
    /\ results' = ("error" :> raised) @@ results
    /\ Log(<<"print", "COMPREHENSIVE ANALYSIS FAILED">>)
    /\ UNCHANGED <<firstRun, file, fileChanges, data, tables, fpRoi, raised, exitCode>>

\* except Exception in execute_comprehensive_analysis: print and re-raise
OrchestratorExcept ==
    /\ pc = "orch_except"
    /\ pc' = "main_except"
    /\ Log(<<"print", "COMPREHENSIVE ANALYSIS FAILED">>)
    /\ UNCHANGED <<firstRun, file, fileChanges, data, tables, results, fpRoi, raised, exitCode>>

\* variant of MainExcept: the handler prints and falls off the end of main()
MainExceptNoExit ==
    /\ pc = "main_except"
    /\ pc' = "done"
    /\ exitCode' = 0
    /\ Log(IF raised = "FileNotFoundError" THEN <<"print", "FILE ERROR">>
           ELSE <<"print", "CRITICAL ERROR">>)
    /\ UNCHANGED <<firstRun, file, fileChanges, data, tables, results, fpRoi, raised>>

\* main(): both except clauses end in sys.exit(1)
MainExcept ==
    /\ pc = "main_except"
    /\ pc' = "done"
    /\ exitCode' = 1
    /\ Log(IF raised = "FileNotFoundError" THEN <<"print", "FILE ERROR">>
           ELSE <<"print", "CRITICAL ERROR">>)
    /\ UNCHANGED <<firstRun, file, fileChanges, data, tables, results, fpRoi, raised>>

\* main() after execute_comprehensive_analysis returned: the process ends
\* with exit code 0
MainSuccess ==
    /\ pc = "returned"
    /\ pc' = "done"
    /\ exitCode' = 0
    /\ Log(<<"print", "ANALYSIS COMPLETED SUCCESSFULLY">>)
    /\ UNCHANGED <<firstRun, file, fileChanges, data, tables, results, fpRoi, raised>>

Next ==
    \/ EnvChangeFile
    \/ VerifyDataFileExists
    \/ ConstructBudget
    \/ ConstructSalary
    \/ ConstructRoi
    \/ ConstructCost
    \/ ExecuteBudget
    \/ ExecuteSalary
    \/ ExecuteRoi
    \/ ConstructOverview
    \/ ExecuteCost
    \/ ExecuteOverview
    \/ GenerateSummary
    \/ OrchestratorExcept
    \/ MainExcept
    \/ MainSuccess

Spec == Init /\ [][Next]_vars

----------------------------------------------------------------------------
(* A second run of the pipeline.                                           *)

\* what the run that has just ended leaves
EndOfRun ==
    [runs |-> 1, changes |-> firstRun.changes, results |-> results, raised |-> raised,
     exitCode |-> exitCode]

\* the program is started again after the process has ended: main() builds a
\* new orchestrator (an empty result collection, new analyzers) on the file
RunPipelineAgain ==
    /\ pc = "done"
    /\ firstRun.runs = 0
    /\ firstRun' = EndOfRun
    /\ pc' = "main"
    /\ tables' = <<>>
    /\ results' = <<>>
    /\ fpRoi' = <<>>
    /\ raised' = "none"
    /\ exitCode' = -1
    /\ trace' = <<>>
    /\ UNCHANGED <<file, fileChanges, data>>

\* execute_comprehensive_analysis is called again on the same orchestrator,
\* after its first call returned or raised: the analyzers built by __init__
\* and the result collection are the ones of the first call
ExecuteAgain ==
    /\ pc \in {"returned", "main_except"}
    /\ "cost" \in DOMAIN tables
    /\ firstRun.runs = 0
    /\ firstRun' = EndOfRun
    /\ pc' = "exec_budget"
    /\ raised' = "none"
    /\ trace' = <<>>
    /\ UNCHANGED <<file, fileChanges, data, tables, results, fpRoi, exitCode>>

NextTwice ==
    \/ Next
    \/ RunPipelineAgain
    \/ ExecuteAgain

SpecTwice == Init /\ [][NextTwice]_vars

----------------------------------------------------------------------------
(* Properties of the orchestration.                                        *)

Happened(event) == \E i \in DOMAIN trace : trace[i] = event

\* event a is in the trace and every occurrence of b comes after one of a
Precedes(a, b) ==
    \A j \in DOMAIN trace : trace[j] = b => \E i \in 1..(j - 1) : trace[i] = a

CallsOf(tr) == SelectSeq(tr, LAMBDA e : e[1] = "call")

\* C1: the execute_analysis calls happen in the order Budget, Salary, ROI,
\* Cost, Financial Planning, each one starting only after the previous one
\* has returned, and the summary is rendered only after all five returned.
C1_FixedOrder ==
    /\ Len(CallsOf(trace)) <= Len(ModuleOrder)
    /\ \A k \in DOMAIN CallsOf(trace) : CallsOf(trace)[k][2] = ModuleOrder[k]
    /\ \A k \in 2..Len(ModuleOrder) :
          Precedes(<<"return", ModuleOrder[k - 1]>>, <<"call", ModuleOrder[k]>>)
    /\ \A k \in DOMAIN ModuleOrder :
          Precedes(<<"return", ModuleOrder[k]>>, <<"summary", "rendered">>)

C1_Witness ==
    /\ Happened(<<"summary", "rendered">>)
    /\ Len(CallsOf(trace)) = Len(ModuleOrder)

\* C2: the Financial Planning analyzer is constructed and executed only after
\* ROI's execute_analysis returned, and its roi_results are the mapping ROI
\* returned and the orchestrator stored under 'roi'.
C2_RoiFeedsPlanning ==
    /\ Precedes(<<"return", "roi">>, <<"new", "company_overview">>)
    /\ Precedes(<<"new", "company_overview">>, <<"call", "company_overview">>)
    /\ "company_overview" \in DOMAIN tables =>
          /\ "roi" \in DOMAIN results
          /\ fpRoi = results["roi"]
          /\ fpRoi = RoiExecute(tables["roi"]).value

C2_Witness ==
    /\ Happened(<<"return", "company_overview">>)
    /\ fpRoi = results["roi"]
    /\ Len(fpRoi.department_roi) = 2

\* C3: when the input file does not exist as the orchestrator is constructed,
\* FileNotFoundError is raised before any analyzer is constructed, and no
\* analyzer is constructed and no result stored afterwards.
C3_MissingFileIsPreflight ==
    [][/\ (pc = "main" /\ file = "missing" /\ pc' # "main") =>
              /\ raised' = "FileNotFoundError"
              /\ pc' = "main_except"
              /\ tables' = <<>>
              /\ results' = <<>>
       /\ (raised = "FileNotFoundError" /\ tables = <<>>) =>
              /\ tables' = <<>>
              /\ results' = <<>>
              /\ CallsOf(trace') = <<>>]_vars

C3_Witness ==
    /\ pc = "done"
    /\ trace[1] = <<"print", "Data file not found">>
    /\ tables = <<>>
    /\ exitCode = 1

\* C4: the process ends with exit code 0 exactly when all five analyses and
\* the summary completed and no exception reached main(); it ends with a
\* non-zero exit code when the file is missing or an exception reached main().
C4_ExitCode ==
    pc = "done" =>
        /\ exitCode \in {0, 1}
        /\ exitCode = 0 <=>
              /\ raised = "none"
              /\ Happened(<<"summary", "rendered">>)
              /\ \A k \in DOMAIN ModuleOrder : Happened(<<"return", ModuleOrder[k]>>)
        /\ (raised # "none" \/ trace[1] = <<"print", "Data file not found">>)
              => exitCode # 0

C4_Witness ==
    /\ pc = "done"
    /\ exitCode = 1
    /\ raised = "KeyError"
    /\ Happened(<<"print", "CRITICAL ERROR">>)

\* what the execute_analysis of a constructed module does on its tables
Outcome(m) ==
    IF m = "budget" THEN BudgetExecute(tables[m])
    ELSE IF m = "salary" THEN SalaryExecute(tables[m])
    ELSE IF m = "roi" THEN RoiExecute(tables[m])
    ELSE IF m = "cost" THEN CostExecute(tables[m])
    ELSE FinancialPlanningExecute(tables[m], fpRoi)

RaisingModules == {"budget", "salary", "roi", "company_overview"}

\* C5: when execute_analysis of Budget, Salary, ROI or Financial Planning hits
\* an internal error, the call raises (no result is stored for the module),
\* the orchestrator re-raises, no later module is called, the summary is not
\* rendered and the run ends as a failure.
C5_ModuleErrorHaltsRun ==
    \A m \in RaisingModules :
        (Happened(<<"call", m>>) /\ Outcome(m).exc # "none") =>
            /\ Happened(<<"raise", m>>)
            /\ m \notin DOMAIN results
            /\ CallsOf(trace)[Len(CallsOf(trace))] = <<"call", m>>
            /\ ~Happened(<<"summary", "rendered">>)
            /\ raised = Outcome(m).exc
            /\ pc \in {"orch_except", "main_except", "done"}
            /\ pc = "main_except" => Happened(<<"print", "COMPREHENSIVE ANALYSIS FAILED">>)
            /\ pc = "done" => exitCode = 1

C5_Witness ==
    /\ pc = "done"
    /\ Happened(<<"raise", "company_overview">>)
    /\ DOMAIN results = {"budget", "salary", "roi", "cost"}

\* an internal error of Cost Optimization: one of its steps raises
CostInternalError(t) ==
    \/ CalculateGeneralCosts(t).exc # "none"
    \/ FindHighOperationalCostDepartments(t).exc # "none"
    \/ FindMostExpensiveEquipment(t).exc # "none"
    \/ ~(HasColumn(t, "equipment", "name") /\ HasColumn(t, "equipment", "type"))

\* C6: when Cost Optimization's execute_analysis hits an internal error it
\* returns a mapping whose only key is 'error'; the orchestrator stores it
\* under 'cost' and goes on to execute the Financial Planning analysis.
C6_CostErrorIsSwallowed ==
    (Happened(<<"call", "cost">>) /\ CostInternalError(tables["cost"])) =>
        /\ Happened(<<"return", "cost">>)
        /\ "cost" \in DOMAIN results
        /\ DOMAIN results["cost"] = {"error"}
        /\ pc = "exec_overview" \/ Happened(<<"call", "company_overview">>)

C6_Witness ==
    /\ "cost" \in DOMAIN results
    /\ DOMAIN results["cost"] = {"error"}
    /\ Happened(<<"return", "company_overview">>)

\* C7: whenever loading the file fails in an analyzer's constructor, the
\* result collection holds no module result at that moment (all five
\* analyzers, Financial Planning included).
C7_LoadErrorNoPartialResults ==
    \A m \in Range(ModuleOrder) : Happened(<<"load_error", m>>) => results = <<>>

----------------------------------------------------------------------------
(* Properties of the Budget analysis.                                      *)

\* number of Employee rows whose department_id is id
EmployeesIn(t, id) ==
    Cardinality({i \in DOMAIN t.employees : t.employees[i].department_id = id})

\* C8: for a non-empty Department table the budgets listed in
\* budget_per_department add up to total_budget, and budget_per_department
\* has exactly one entry per Department row, in the rows' order.
C8_BudgetsAddUp ==
    "budget" \in DOMAIN results =>
        LET r == results["budget"]
            departments == tables["budget"].departments
        IN  /\ departments # <<>>
            /\ SumSeq(Column(r.budget_per_department, "budget")) = r.total_budget
            /\ Len(r.budget_per_department) = Len(departments)
            /\ \A i \in DOMAIN departments :
                  /\ r.budget_per_department[i].name = departments[i].name
                  /\ r.budget_per_department[i].budget = departments[i].budget

C8_Witness ==
    /\ "budget" \in DOMAIN results
    /\ Len(results["budget"].budget_per_department) = 2
    /\ results["budget"].budget_per_department[1].name
          = results["budget"].budget_per_department[2].name
    /\ results["budget"].total_budget = 500

\* C9: among the departments for which a budget-per-employee ratio is
\* computed (budget / number of employees of the department), the reported
\* highest department has a ratio >= every computed ratio and the reported
\* lowest department a ratio <= every computed ratio.
C9_HighestLowestRatio ==
    "budget" \in DOMAIN results =>
        LET t == tables["budget"]
            hi == results["budget"].highest_budget_department
            lo == results["budget"].lowest_budget_department
            computed(x) ==
                /\ x.employee_count = EmployeesIn(t, x.id)
                /\ x.employee_count > 0
                /\ x.budget_per_employee = Ratio(x.budget, x.employee_count)
                /\ \E i \in DOMAIN t.departments :
                      t.departments[i].id = x.id /\ t.departments[i].budget = x.budget
        IN  /\ computed(hi)
            /\ computed(lo)
            /\ \A i \in DOMAIN t.departments :
                  EmployeesIn(t, t.departments[i].id) > 0 =>
                      /\ hi.budget * EmployeesIn(t, t.departments[i].id)
                            >= t.departments[i].budget * hi.employee_count
                      /\ lo.budget * EmployeesIn(t, t.departments[i].id)
                            <= t.departments[i].budget * lo.employee_count

C9_Witness ==
    /\ "budget" \in DOMAIN results
    /\ results["budget"].highest_budget_department.budget
          < results["budget"].lowest_budget_department.budget
    /\ results["budget"].lowest_budget_department.employee_count = 2

\* C10: the budget-per-employee grouping keeps every department of the
\* Department table: a department with zero matching employees stays in the
\* set of departments ranked for highest/lowest budget-per-employee.
C10_ZeroEmployeeDepartmentsRanked ==
    "budget" \in DOMAIN results =>
        LET t == tables["budget"]
            ranked == MergeEmployeeCounts(t.departments, EmployeeCounts(t.employees))
        IN  \A i \in DOMAIN t.departments :
                \E j \in DOMAIN ranked : ranked[j].id = t.departments[i].id

\* C11: for a non-empty Department table the budget-per-employee ranking does
\* not raise, whatever the Employee table: departments without employees,
\* employees none of whom matches a department id, or no employee at all.
C11_RankingNeverRaises ==
    (Happened(<<"call", "budget">>) /\ tables["budget"].departments # <<>>) =>
        AnalyseDepartmentBudget(tables["budget"]).exc = "none"

\* C12: budget_per_department of the Budget result lists the departments in
\* non-increasing order of budget, whatever the row order of the input.
C12_BudgetPerDepartmentSorted ==
    "budget" \in DOMAIN results =>
        LET listed == results["budget"].budget_per_department
        IN  \A i \in DOMAIN listed : \A j \in DOMAIN listed :
                i < j => listed[i].budget >= listed[j].budget

----------------------------------------------------------------------------
(* Properties of the Salary analysis.                                      *)

\* C13: for a non-empty salary column, with Q1 and Q3 its 25% and 75%
\* quantiles and IQR = Q3 - Q1, salary_outliers holds exactly the employees
\* whose salary is <= Q1 - 1.5 * IQR or >= Q3 + 1.5 * IQR, and is the empty
\* list when there is none; for the salaries 10, 12, 11, 13, 1000 it holds
\* exactly the employee whose salary is 1000.
C13_IqrOutliers ==
    "salary" \in DOMAIN results =>
        LET employees == tables["salary"].employees
            salary == Column(employees, "salary")
            Q1x4 == Quantile4(salary, 1).num
            Q3x4 == Quantile4(salary, 3).num
            IQRx4 == Q3x4 - Q1x4
            \* salary * 8 against (Q1 - 1.5 * IQR) * 8 and (Q3 + 1.5 * IQR) * 8
            flagged == [i \in DOMAIN salary |->
                           \/ 8 * salary[i] <= 2 * Q1x4 - 3 * IQRx4
                           \/ 8 * salary[i] >= 2 * Q3x4 + 3 * IQRx4]
            found == results["salary"].salary_outliers
        IN  /\ employees # <<>>
            /\ Quantile4(salary, 1).den = 4 /\ Quantile4(salary, 3).den = 4
            /\ found.rows = SelectRows(employees, flagged)
            /\ (\A i \in DOMAIN salary : ~flagged[i]) => found = [kind |-> "list", rows |-> <<>>]
            /\ salary = OutlierSample =>
                  /\ Q1x4 = 4 * 11 /\ Q3x4 = 4 * 13
                  /\ Column(found.rows, "salary") = <<1000>>

C13_Witness ==
    /\ "salary" \in DOMAIN results
    /\ Column(tables["salary"].employees, "salary") = OutlierSample
    /\ Len(results["salary"].salary_outliers.rows) = 1
    /\ results["salary"].salary_outliers.rows[1].salary = 1000

----------------------------------------------------------------------------
(* Properties of the ROI analysis.                                         *)

\* the rows of the Project table whose status is 'completed'
CompletedRows(projects) ==
    SelectRows(projects, [i \in DOMAIN projects |-> projects[i].status = "completed"])

\* C14: general_roi equals sum(profit) / sum(actual_cost) * 100 over the
\* completed projects, and 0 when that total cost is <= 0; changing the
\* profit or cost of a project of another status leaves it unchanged; when
\* every completed project has profit 100 and cost 200 it is 50.
C14_GeneralRoi ==
    "roi" \in DOMAIN results =>
        LET t == tables["roi"]
            completed == CompletedRows(t.projects)
            total_profit == SumSeq(Column(completed, "profit"))
            total_cost == SumSeq(Column(completed, "actual_cost"))
            general_roi == results["roi"].general_roi
        IN  /\ general_roi.den > 0
            /\ IF total_cost > 0
               THEN general_roi.num * total_cost = total_profit * 100 * general_roi.den
               ELSE general_roi.num = 0
            /\ (\A i \in DOMAIN completed :
                    completed[i].profit = 100 /\ completed[i].actual_cost = 200)
                  => general_roi.num = 50 * general_roi.den
            /\ \A i \in DOMAIN t.projects : \A f \in ProjectFinancials :
                  t.projects[i].status # "completed" =>
                      RoiExecute([t EXCEPT !.projects[i].profit = f[1],
                                           !.projects[i].actual_cost = f[2]]
                                ).value.general_roi = general_roi

C14_Witness ==
    /\ "roi" \in DOMAIN results
    /\ Len(tables["roi"].projects) = 3
    /\ Len(CompletedRows(tables["roi"].projects)) = 2
    /\ tables["roi"].projects[2].status = "active"
    /\ tables["roi"].projects[2].profit = 300
    /\ results["roi"].general_roi = Ratio(20000, 400)

\* a float value that is the number 0
IsZero(x) == x.den > 0 /\ x.num = 0

\* C15: when the Project table holds no completed project, or the completed
\* projects have zero total cost, the ROI analysis raises no exception and
\* its result has general_roi = 0.
C15_NoCompletedOrZeroCost ==
    LET t == tables["roi"]
        completed == CompletedRows(t.projects)
    IN  ( /\ Happened(<<"call", "roi">>)
          /\ t.projects # <<>> /\ t.absent = {}
          /\ \/ completed = <<>>
             \/ SumSeq(Column(completed, "actual_cost")) = 0 ) =>
            /\ ~Happened(<<"raise", "roi">>)
            /\ "roi" \in DOMAIN results
            /\ IsZero(results["roi"].general_roi)

\* C16: the per-project calculated_roi of a completed project whose
\* actual_cost is <= 0 is 0, and no department's average ROI is undefined or
\* infinite.
C16_RoiRatiosDefined ==
    "roi" \in DOMAIN results =>
        LET completed_projects == CompletedProjects(tables["roi"])
            department_roi == results["roi"].department_roi
        IN  /\ \A i \in DOMAIN completed_projects :
                  completed_projects[i].actual_cost <= 0 =>
                      IsZero(completed_projects[i].calculated_roi)
            /\ \A i \in DOMAIN department_roi : department_roi[i].average_roi.den > 0

\* the main department of a project: the first of its participating
\* departments, or the sentinel when it has none
MainDepartmentOf(project) ==
    IF project.participating_departments = <<>> THEN "NotSpecified"
    ELSE Head(project.participating_departments)

\* the ROI of a project: profit / actual_cost * 100, 0 when actual_cost <= 0
ProjectRoi(project) ==
    IF project.actual_cost > 0 THEN Ratio(project.profit * 100, project.actual_cost)
    ELSE Ratio(0, 1)

\* C17: department_roi has one entry per distinct main department of the
\* completed projects, valued at the mean of the ROI of that department's
\* completed projects, in non-increasing order; effective_roi_department is
\* its first entry and ineffective_roi_department its last, the former's
\* average ROI being >= the latter's.
C17_DepartmentRoi ==
    "roi" \in DOMAIN results =>
        LET completed == CompletedRows(tables["roi"].projects)
            r == results["roi"]
            ranking == r.department_roi
            of(name) == SelectRows(completed,
                            [k \in DOMAIN completed |-> MainDepartmentOf(completed[k]) = name])
            mean(name) == NumMean([k \in DOMAIN of(name) |-> ProjectRoi(of(name)[k])])
        IN  /\ {ranking[i].name : i \in DOMAIN ranking}
                  = {MainDepartmentOf(completed[k]) : k \in DOMAIN completed}
            /\ \A i \in DOMAIN ranking : \A j \in DOMAIN ranking :
                  ranking[i].name = ranking[j].name => i = j
            /\ \A i \in DOMAIN ranking :
                  /\ ranking[i].average_roi.den > 0
                  /\ ranking[i].average_roi.num * mean(ranking[i].name).den
                        = mean(ranking[i].name).num * ranking[i].average_roi.den
            /\ \A i \in DOMAIN ranking : \A j \in DOMAIN ranking :
                  i < j => ranking[i].average_roi.num * ranking[j].average_roi.den
                              >= ranking[j].average_roi.num * ranking[i].average_roi.den
            /\ ranking # <<>>
            /\ r.effective_roi_department = ranking[1].name
            /\ r.ineffective_roi_department = ranking[Len(ranking)].name

----------------------------------------------------------------------------
(* Properties of the Cost Optimization analysis.                           *)

\* C18: the department ranking of the Cost result has one entry per distinct
\* department_name of the Equipment table, valued at the sum of the monthly
\* maintenance costs of that department's items, in non-increasing order;
\* top_spender_department and top_spender_amount are its first entry; its
\* values add up to total_monthly_cost, and total_annual_cost is 12 times
\* total_monthly_cost.
C18_CostRanking ==
    ("cost" \in DOMAIN results /\ "general_costs" \in DOMAIN results["cost"]) =>
        LET equipment == tables["cost"].equipment
            top == results["cost"].high_operational_cost_departments
            rating == top.full_rating
            general == results["cost"].general_costs
            monthly(d) ==
                SumSeq(Column(SelectRows(equipment,
                           [k \in DOMAIN equipment |-> equipment[k].department_name = d]),
                       "maintenance_cost_per_month"))
        IN  /\ {rating[i].department_name : i \in DOMAIN rating}
                  = {equipment[k].department_name : k \in DOMAIN equipment}
            /\ \A i \in DOMAIN rating : \A j \in DOMAIN rating :
                  rating[i].department_name = rating[j].department_name => i = j
            /\ \A i \in DOMAIN rating : rating[i].amount = monthly(rating[i].department_name)
            /\ \A i \in DOMAIN rating : \A j \in DOMAIN rating :
                  i < j => rating[i].amount >= rating[j].amount
            /\ rating # <<>>
            /\ top.top_spender_department = rating[1].department_name
            /\ top.top_spender_amount = rating[1].amount
            /\ SumSeq(Column(rating, "amount")) = general.total_monthly_cost
            /\ general.total_monthly_cost
                  = SumSeq(Column(equipment, "maintenance_cost_per_month"))
            /\ general.total_annual_cost = 12 * general.total_monthly_cost

C18_Witness ==
    /\ "cost" \in DOMAIN results
    /\ "general_costs" \in DOMAIN results["cost"]
    /\ Len(tables["cost"].equipment) = 3
    /\ tables["cost"].equipment[1].department_name = "Ops"
    /\ tables["cost"].equipment[1].maintenance_cost_per_month = 30
    /\ results["cost"].high_operational_cost_departments.full_rating
          = << [department_name |-> "Dev", amount |-> 40],
               [department_name |-> "Ops", amount |-> 30] >>
    /\ results["cost"].general_costs.total_annual_cost = 840

----------------------------------------------------------------------------
(* Properties of the Financial Planning analysis.                          *)

\* C19: break_even_point equals (sum of the salaries + sum of the monthly
\* maintenance costs) * 12 / 0.30; with salaries summing to 100000 and
\* maintenance summing to 20000 it is 4800000.
C19_BreakEvenPoint ==
    "company_overview" \in DOMAIN results =>
        LET t == tables["company_overview"]
            salaries == SumSeq(Column(t.employees, "salary"))
            maintenance == SumSeq(Column(t.equipment, "maintenance_cost_per_month"))
            point == results["company_overview"].break_even_point.break_even_point
        IN  /\ point.den > 0
            \* point * 0.30 = (salaries + maintenance) * 12, both sides times 10
            /\ point.num * 3 = (salaries + maintenance) * 12 * 10 * point.den
            /\ (salaries = 100000 /\ maintenance = 20000)
                  => point.num = 4800000 * point.den

C19_Witness ==
    /\ "company_overview" \in DOMAIN results
    /\ SumSeq(Column(tables["company_overview"].employees, "salary")) = 100000
    /\ SumSeq(Column(tables["company_overview"].equipment,
                     "maintenance_cost_per_month")) = 20000
    /\ results["company_overview"].break_even_point.break_even_point.num
          = 4800000 * results["company_overview"].break_even_point.break_even_point.den

\* C20: high_effective_roi_department of the Financial Planning result holds
\* exactly the departments of ROI's department_roi whose average ROI is
\* strictly greater than the mean of all department average ROIs.
C20_HighRoiDepartments ==
    "company_overview" \in DOMAIN results =>
        LET department_roi == results["roi"].department_roi
            mean == NumMean(Column(department_roi, "average_roi"))
            above == {department_roi[i] : i \in {k \in DOMAIN department_roi :
                         NumGT(department_roi[k].average_roi, mean)}}
        IN  Range(results["company_overview"].high_effective_roi_department) = above

----------------------------------------------------------------------------
(* Properties of repeated runs.                                            *)

\* C21: when the pipeline has run twice and the input file did not change,
\* the result collection after the second run equals the one after the first
\* run, key by key, and the second run failed exactly when the first did
\* (same exception, same exit code).
C21_SecondRunSameResults ==
    ( /\ firstRun.runs = 1
      /\ pc \in {"returned", "main_except", "done"}
      /\ fileChanges = firstRun.changes ) =>
        /\ DOMAIN results = DOMAIN firstRun.results
        /\ \A m \in DOMAIN results : results[m] = firstRun.results[m]
        /\ raised = firstRun.raised
        /\ (pc = "done" /\ firstRun.exitCode # -1) => exitCode = firstRun.exitCode

C21_Witness ==
    /\ firstRun.runs = 1
    /\ firstRun.exitCode = -1
    /\ pc = "returned"
    /\ DOMAIN firstRun.results = Range(ModuleOrder)
    /\ Happened(<<"return", "company_overview">>)
    /\ Len(results["roi"].department_roi) = 2

----------------------------------------------------------------------------
(* Frame properties of the analyses.                                       *)

\* the columns of the Project table as projected from the document
ProjectColumns == {"status", "profit", "actual_cost", "participating_departments"}

\* C22: no step of a run changes the tables a module projected at its
\* construction: every constructed module keeps exactly its tables through
\* every later step (its own analysis and the other modules' analyses,
\* successful or failed), and the rows of ROI's projects table never carry
\* the calculated_roi or main_department columns.
C22_TablesNotMutated ==
    [][/\ \A m \in DOMAIN tables :
              /\ m \in DOMAIN tables'
              /\ tables'[m] = tables[m]
       /\ "roi" \in DOMAIN tables' =>
              \A i \in DOMAIN tables'["roi"].projects :
                  DOMAIN tables'["roi"].projects[i] = ProjectColumns]_vars

C22_Witness ==
    /\ pc = "done"
    /\ Happened(<<"return", "roi">>)
    /\ Happened(<<"return", "company_overview">>)
    /\ Len(CompletedProjects(tables["roi"])) = 2
    /\ Len(tables["roi"].projects) = 3
    /\ \A m \in Range(ModuleOrder) : tables[m] = data

----------------------------------------------------------------------------
(* Properties of the summary.                                              *)

\* C23: whenever all five modules returned proper result mappings, the
\* summary is rendered without raising and execute_comprehensive_analysis
\* returns the collection of the five keys, whether salary_outliers is the
\* empty list or a non-empty set of employees.
C23_SummaryRenders ==
    ( /\ DOMAIN results = Range(ModuleOrder)
      /\ "error" \notin DOMAIN results["cost"]
      /\ pc # "summary" ) =>
        /\ Happened(<<"summary", "rendered">>)
        /\ raised = "none"
        /\ pc \in {"returned", "done"}

----------------------------------------------------------------------------
(* Properties of the result collection.                                    *)

\* the first k modules of the pipeline
FirstModules(k) == {ModuleOrder[i] : i \in 1..k}

\* C25: at every point of a run on a fresh orchestrator the keys of the
\* result collection are a prefix of budget, salary, roi, cost,
\* company_overview; a key is present only after its module's
\* execute_analysis returned; when module k raised, the collection holds
\* exactly the results of the modules before k; and once an exception is in
\* flight the collection is never extended.
C25_ResultKeysArePrefix ==
    /\ [](/\ \E k \in 0..Len(ModuleOrder) : DOMAIN results = FirstModules(k)
          /\ \A m \in DOMAIN results : Happened(<<"return", m>>)
          /\ \A k \in DOMAIN ModuleOrder :
                Happened(<<"raise", ModuleOrder[k]>>)
                    => DOMAIN results = FirstModules(k - 1))
    /\ [][raised # "none" => results' = results]_vars

C25_Witness ==
    /\ pc = "done"
    /\ Happened(<<"raise", "roi">>)
    /\ DOMAIN results = {"budget", "salary"}
    /\ exitCode = 1

----------------------------------------------------------------------------
(* Salary outliers and the interquartile interval.                         *)

\* C26: for a non-empty salary column an employee whose salary lies within
\* [Q1, Q3] is never returned as a salary outlier, also when all salaries
\* are equal or at least half of them share one value (IQR = 0).
C26_WithinQuartilesNotOutlier ==
    "salary" \in DOMAIN results =>
        LET salary == Column(tables["salary"].employees, "salary")
            Q1 == Quantile4(salary, 1)
            Q3 == Quantile4(salary, 3)
            found == results["salary"].salary_outliers.rows
        IN  \A i \in DOMAIN found :
                ~(/\ Q1.num <= found[i].salary * Q1.den
                  /\ found[i].salary * Q3.den <= Q3.num)

====
